---- MODULE Spec2Model ----
(***************************************************************************)
(* Model of the fs_tidyfy repository: the persisted size-bucket index of   *)
(* src/fs_inspect/fsi.py (class indexer with its name_component_store) and *)
(* the in-memory size-bucket index of src/fs_tidyfy.py (FsDb / FileY).     *)
(*                                                                         *)
(* Python strings that the code formats, joins, splits or parses are       *)
(* modelled as sequences of one-character strings, so that str(), int(),   *)
(* '/'.join(), split() and readline() are computed, not assumed.           *)
(***************************************************************************)
EXTENDS Integers, Sequences, FiniteSets, TLC

VARIABLES store, dirs, dirinfo, db_files, last, seen, added, nops,
          packs, name_file, session, scan, hashcall

vars == <<store, dirs, dirinfo, db_files, last, seen, added, nops,
          packs, name_file, session, scan, hashcall>>

(***************************************************************************)
(* Bounds of the model.                                                    *)
(***************************************************************************)
\* number of _add_file calls (resp. files visited by register) in one run
MaxOps == 3
\* number of paths packed in a run of the name store alone
MaxPacks == 3
\* number of runs of the program (with-blocks of an indexer) one after another
MaxSessions == 2

(***************************************************************************)
(* Python string primitives on sequences of characters.                    *)
(***************************************************************************)
Digits == <<"0", "1", "2", "3", "4", "5", "6", "7", "8", "9">>

\* a decimal conversion that keeps the last digit only
Str_last_digit(n) == <<Digits[(n % 10) + 1]>>

\* str(n) and '%d' % n for n >= 0
RECURSIVE Str(_)
Str(n) ==
    IF n < 10 THEN <<Digits[n + 1]>>
    ELSE Str(n \div 10) \o <<Digits[(n % 10) + 1]>>

DigitVal(c) == CHOOSE d \in 0..9 : Digits[d + 1] = c

\* int(s) for a non-empty string of decimal digits
RECURSIVE ParseInt(_)
ParseInt(s) ==
    IF Len(s) = 1 THEN DigitVal(s[1])
    ELSE 10 * ParseInt(SubSeq(s, 1, Len(s) - 1)) + DigitVal(s[Len(s)])

\* sep.join(parts), parts a sequence of strings
RECURSIVE Join(_, _)
Join(sep, parts) ==
    IF Len(parts) = 0 THEN <<>>
    ELSE IF Len(parts) = 1 THEN parts[1]
    ELSE parts[1] \o <<sep>> \o Join(sep, Tail(parts))

\* s.split(sep): always at least one part, empty parts are kept
RECURSIVE Split(_, _)
Split(s, sep) ==
    IF \A i \in 1..Len(s) : s[i] # sep THEN <<s>>
    ELSE LET k == CHOOSE i \in 1..Len(s) :
                      s[i] = sep /\ \A j \in 1..(i - 1) : s[j] # sep
         IN <<SubSeq(s, 1, k - 1)>> \o Split(SubSeq(s, k + 1, Len(s)), sep)

\* the sequence of the one-character strings of s (iterating a str)
CharsOf(s) == [i \in 1..Len(s) |-> <<s[i]>>]

\* file.readline(): the text up to and including the first newline
Readline(s) ==
    IF \A i \in 1..Len(s) : s[i] # "\n" THEN s
    ELSE SubSeq(s, 1, CHOOSE i \in 1..Len(s) :
                          s[i] = "\n" /\ \A j \in 1..(i - 1) : s[j] # "\n")

STR_single == <<"s", "i", "n", "g", "l", "e">>
STR_multi == <<"m", "u", "l", "t", "i">>

(***************************************************************************)
(* The files the scanner can hand to the index.  A file is named by a      *)
(* short id; its absolute path, size and content are fixed (the files do   *)
(* not change during a run).  Files x, y, z, w are the files of the        *)
(* scenarios; p, q, r have sizes whose decimal form is a prefix or an      *)
(* extension of 500; e has an empty path segment; l is above both hashing  *)
(* thresholds.                                                             *)
(***************************************************************************)
Files == {"x", "y", "z", "w", "p", "q", "r", "e", "l"}

FileName(f) ==
    CASE f = "x" -> <<"/", "a", "/", "x">>
      [] f = "y" -> <<"/", "a", "/", "y">>
      [] f = "z" -> <<"/", "a", "/", "z">>
      [] f = "w" -> <<"/", "a", "/", "w">>
      [] f = "p" -> <<"/", "b", "/", "p">>
      [] f = "q" -> <<"/", "b", "/", "q">>
      [] f = "r" -> <<"/", "r">>
      [] f = "e" -> <<"/", "a", "/", "/", "e">>
      [] f = "l" -> <<"/", "b", "/", "l">>

FileSize(f) ==
    CASE f \in {"x", "y", "z"} -> 500
      [] f = "w" -> 300
      [] f = "p" -> 5
      [] f \in {"q", "e"} -> 50
      [] f = "r" -> 5000
      [] f = "l" -> 70000

\* the hex digest of the file's bytes (x and y have identical content)
Digest(f) ==
    CASE f \in {"x", "y"} -> "sha1_Z"
      [] f = "z" -> "sha1_W"
      [] OTHER -> "sha1_" \o f

Sizes == {FileSize(f) : f \in Files}

\* Absolute paths with non-empty segments, for the name store alone: they
\* share some words and together hold more than ten, so ids get two digits.
Paths ==
    { <<"/", "a", "/", "b", "/", "c", "/", "d">>,
      <<"/", "e", "/", "f", "/", "g", "/", "h">>,
      <<"/", "i", "/", "j", "/", "k", "/", "l">>,
      <<"/", "a", "/", "f", "/", "k", "/", "m">>,
      <<"/", "h", "o", "m", "e", "/", "u", "/", "a">>,
      <<"/", "m">> }

\* errno of the environment's answer to a stat or a read; 0 is success
StatErrnos == {0, 13}
ReadErrnos == {0, 13}

\* The environment answers only what a call asks: no read follows a failed
\* stat, and the file a bucket holds is read only when the bucket exists.
Asked(serr, new_rerr, other_rerr, bucket_exists) ==
    /\ serr # 0 => new_rerr = 0 /\ other_rerr = 0
    /\ other_rerr # 0 => bucket_exists

\* a dict with key k set to v (d[k] = v)
Put(d, k, v) == [a \in (DOMAIN d) \cup {k} |-> IF a = k THEN v ELSE d[a]]

EmptyDict == [a \in {} |-> <<>>]

NoError == [exc |-> "none", errno |-> 0]
Raise(exc, errno) == [exc |-> exc, errno |-> errno]

(***************************************************************************)
(* Hashing (fsi.py).  A digest is a string; the model keeps the forty hex  *)
(* characters of a digest as one symbol.                                   *)
(***************************************************************************)
\* sha1_internal: open() raises when the file cannot be read
sha1_internal(f, rerr) ==
    IF rerr # 0 THEN [err |-> Raise("OSError", rerr), digest |-> <<>>]
    ELSE [err |-> NoError, digest |-> <<Digest(f)>>]

\* stdout of the sha1sum process: "<digest>  <filename>\n", or nothing when
\* sha1sum could not read the file (its message goes to stderr)
Sha1sumOutput(f, rerr) ==
    IF rerr # 0 THEN <<>>
    ELSE <<Digest(f), " ", " ">> \o FileName(f) \o <<"\n">>

\* sha1_external: the first blank-separated token of the output, unchecked
sha1_external(f, rerr) ==
    [err |-> NoError, digest |-> Split(Sha1sumOutput(f, rerr), " ")[1]]

FastSha1Limit == 50000
AddFileSha1Limit == 60000

\* the call of one of the two hash functions
sha1_by(method, f, rerr) ==
    IF method = "sha1_internal" THEN sha1_internal(f, rerr)
    ELSE sha1_external(f, rerr)

\* which function fast_sha1 calls (line 33)
fast_sha1_method(size) ==
    IF size < FastSha1Limit THEN "sha1_internal" ELSE "sha1_external"

\* which function the hash step of _add_file calls (line 163)
add_file_hash_method(size) ==
    IF size < AddFileSha1Limit THEN "sha1_internal" ELSE "sha1_external"

fast_sha1(f, size, rerr) == sha1_by(fast_sha1_method(size), f, rerr)

\* the hash step of _add_file (lines 161-178)
add_file_hash(f, size, rerr) == sha1_by(add_file_hash_method(size), f, rerr)

(***************************************************************************)
(* indexer.name_component_store                                            *)
(***************************************************************************)
NewStore == [idx_to_word |-> EmptyDict, word_to_idx |-> EmptyDict, size |-> 0]

\* get_index that forgets to count the new word
get_index_no_count(st, word) ==
    IF word = <<>>
    THEN [err |-> Raise("AssertionError", 0), store |-> st, index |-> 0, grew |-> FALSE]
    ELSE IF word \in DOMAIN st.word_to_idx
    THEN [err |-> NoError, store |-> st, index |-> st.word_to_idx[word], grew |-> FALSE]
    ELSE [err |-> NoError,
          store |-> [idx_to_word |-> Put(st.idx_to_word, st.size, word),
                     word_to_idx |-> Put(st.word_to_idx, word, st.size),
                     size |-> st.size],
          index |-> st.size, grew |-> TRUE]

\* get_index: the id of word, interning it when it is new; the assertion
\* fails on the empty word and leaves the store as it is
get_index(st, word) ==
    IF word = <<>>
    THEN [err |-> Raise("AssertionError", 0), store |-> st, index |-> 0, grew |-> FALSE]
    ELSE IF word \in DOMAIN st.word_to_idx
    THEN [err |-> NoError, store |-> st, index |-> st.word_to_idx[word], grew |-> FALSE]
    ELSE [err |-> NoError,
          store |-> [idx_to_word |-> Put(st.idx_to_word, st.size, word),
                     word_to_idx |-> Put(st.word_to_idx, word, st.size),
                     size |-> st.size + 1],
          index |-> st.size, grew |-> TRUE]

\* some enumeration of a finite set
RECURSIVE SetSeq(_)
SetSeq(S) ==
    IF S = {} THEN <<>>
    ELSE LET x == CHOOSE y \in S : TRUE IN <<x>> \o SetSeq(S \ {x})

\* the words of id k in the order _word_to_idx iterates them: the word that
\* _idx_to_word holds for k was inserted last of them
WordsOfId(st, k) ==
    LET ws == {w \in DOMAIN st.word_to_idx : st.word_to_idx[w] = k}
        top == IF k \in DOMAIN st.idx_to_word THEN {st.idx_to_word[k]} \cap ws ELSE {}
    IN SetSeq(ws \ top) \o SetSeq(top)

\* iteration order of _word_to_idx as far as load can tell it apart: by id
\* (get_index inserts in id order), words of one id as in WordsOfId
RECURSIVE DumpOrder(_, _)
DumpOrder(st, ids) ==
    IF ids = {} THEN <<>>
    ELSE LET k == CHOOSE i \in ids : \A j \in ids : i <= j
         IN WordsOfId(st, k) \o DumpOrder(st, ids \ {k})

\* a save whose last member never reaches the file
save_unflushed(st) ==
    LET order == DumpOrder(st, {st.word_to_idx[w] : w \in DOMAIN st.word_to_idx})
    IN [kind |-> "object",
        members |-> [i \in 1..(Len(order) - 1) |->
                        <<order[i], Str(st.word_to_idx[order[i]])>>]]

\* save: json.dump(self._word_to_idx, open(filename, 'w')); the file holds a
\* JSON object, one member per word, the id written in decimal
save(st) ==
    LET order == DumpOrder(st, {st.word_to_idx[w] : w \in DOMAIN st.word_to_idx})
    IN [kind |-> "object",
        members |-> [i \in 1..Len(order) |-> <<order[i], Str(st.word_to_idx[order[i]])>>]]

\* json.load of a JSON object: a dict of the members, the numbers parsed
RECURSIVE json_object(_)
json_object(members) ==
    IF Len(members) = 0 THEN EmptyDict
    ELSE LET m == members[Len(members)]
         IN Put(json_object(SubSeq(members, 1, Len(members) - 1)), m[1], ParseInt(m[2]))

\* the loop of load: _idx2word[idx] = word for every item, in order
RECURSIVE Idx2Word(_)
Idx2Word(members) ==
    IF Len(members) = 0 THEN EmptyDict
    ELSE LET m == members[Len(members)]
         IN Put(Idx2Word(SubSeq(members, 1, Len(members) - 1)), ParseInt(m[2]), m[1])

\* a load that leaves _size as it was
load_size_unset(st, file) ==
    IF file.kind \in {"missing", "garbage"}
    THEN [err |-> NoError, store |-> st]
    ELSE IF file.kind = "array"
    THEN [err |-> Raise("AttributeError", 0), store |-> st]
    ELSE [err |-> NoError,
          store |-> [idx_to_word |-> Idx2Word(file.members),
                     word_to_idx |-> json_object(file.members),
                     size |-> st.size]]

\* load: a file that is missing or is not JSON makes json.load raise, and
\* the bare except returns with the store as it was; JSON that is not an
\* object fails on .items(), after the try; else the three fields are
\* replaced, _size being the number of distinct ids
load(st, file) ==
    IF file.kind \in {"missing", "garbage"}
    THEN [err |-> NoError, store |-> st]
    ELSE IF file.kind = "array"
    THEN [err |-> Raise("AttributeError", 0), store |-> st]
    ELSE LET idx2word == Idx2Word(file.members)
         IN [err |-> NoError,
             store |-> [idx_to_word |-> idx2word,
                        word_to_idx |-> json_object(file.members),
                        size |-> Cardinality(DOMAIN idx2word)]]

\* __eq__ of two stores
store_eq(a, b) ==
    /\ a.size = b.size
    /\ a.idx_to_word = b.idx_to_word
    /\ a.word_to_idx = b.word_to_idx

\* the generator of _get_name_components: get_index on each word in order,
\* stopping at the first failing call (the words before it stay interned)
RECURSIVE InternWords(_, _)
InternWords(st, words) ==
    IF Len(words) = 0
    THEN [err |-> NoError, store |-> st, ids |-> <<>>, trace |-> <<>>]
    ELSE LET g == get_index(st, words[1])
             ev == IF g.grew THEN <<"get_index", "store_grow">> ELSE <<"get_index">>
         IN IF g.err.exc # "none"
            THEN [err |-> g.err, store |-> g.store, ids |-> <<>>, trace |-> ev]
            ELSE LET r == InternWords(g.store, Tail(words))
                 IN [err |-> r.err, store |-> r.store,
                     ids |-> <<g.index>> \o r.ids, trace |-> ev \o r.trace]

\* _get_name_components: "/home/user" -> "2/7"
get_name_components(st, path) ==
    LET r == InternWords(st, Split(Tail(path), "/"))
    IN [err |-> r.err, store |-> r.store, trace |-> r.trace,
        packed |-> Join("/", [i \in 1..Len(r.ids) |-> Str(r.ids[i])])]

\* _restore_name: "2/7" -> "/home/user"; a KeyError when an id is unknown
restore_name(st, packed_path) ==
    LET cs == Split(packed_path, "/")
        ids == [i \in 1..Len(cs) |-> ParseInt(cs[i])]
    IN IF \E i \in 1..Len(ids) : ids[i] \notin DOMAIN st.idx_to_word
       THEN [err |-> Raise("KeyError", 0), name |-> <<>>]
       ELSE [err |-> NoError,
             name |-> <<"/">> \o Join("/", [i \in 1..Len(ids) |-> st.idx_to_word[ids[i]]])]

(***************************************************************************)
(* indexer: the persisted index under ~/.fsi/files.  dirs is the set of    *)
(* directories below that root (paths relative to it), dirinfo maps a      *)
(* directory to the content of its 'dirinfo' file.                         *)
(***************************************************************************)
\* a size path that keeps the first digit only, 500 -> "5"
SizePath_first_digit(size) == Join("/", SubSeq(CharsOf(Str(size)), 1, 1))

\* the directory of a size: '/'.join('%d' % size), 500 -> "5/0/0"
SizePath(size) == Join("/", CharsOf(Str(size)))

\* os.makedirs(path): the directory and every missing parent
makedirs(ds, path) ==
    LET cs == Split(path, "/")
    IN ds \cup {Join("/", SubSeq(cs, 1, k)) : k \in 1..Len(cs)}

\* _get_size_path: creates the directory when it is missing (state None,
\* modelled as <<>>), else reads the first line of its dirinfo and splits it
get_size_path(ds, di, size) ==
    LET result == SizePath(size)
    IN IF result \notin ds
       THEN [path |-> result, state |-> <<>>, dirs |-> makedirs(ds, result),
             trace |-> <<"makedirs">>]
       ELSE IF result \in DOMAIN di
       THEN [path |-> result, state |-> Split(Readline(di[result]), " "),
             dirs |-> ds, trace |-> <<>>]
       ELSE [path |-> result, state |-> <<>>, dirs |-> ds, trace |-> <<>>]

\* _store_single_file: dirinfo of size_path becomes "single " + name
store_single_file(di, size_path, name) ==
    Put(di, size_path, STR_single \o <<" ">> \o name)

\* _promote_to_multi: restores both names, hashes both files, then fails on
\* the unconditional assert; nothing is written. A restored name that is no
\* file (known = {}) cannot be opened: errno 2
promote_to_multi(st, f, size, other_packed_name, new_packed_name, other_rerr, new_rerr) ==
    LET other_file_name == restore_name(st, other_packed_name)
        new_file_name == restore_name(st, new_packed_name)
        known == {o \in Files : FileName(o) = other_file_name.name}
        other == IF known = {} THEN "none" ELSE CHOOSE o \in known : TRUE
        hash1 == fast_sha1(other, size, IF known = {} THEN 2 ELSE other_rerr)
        hash2 == fast_sha1(f, size, new_rerr)
    IN IF other_file_name.err.exc # "none"
       THEN [err |-> other_file_name.err, trace |-> <<>>, hashed |-> <<>>]
       ELSE IF new_file_name.err.exc # "none"
       THEN [err |-> new_file_name.err, trace |-> <<>>, hashed |-> <<>>]
       ELSE IF hash1.err.exc # "none"
       THEN [err |-> hash1.err, trace |-> <<"hash">>, hashed |-> <<other>>]
       ELSE IF hash2.err.exc # "none"
       THEN [err |-> hash2.err, trace |-> <<"hash", "hash">>, hashed |-> <<other, f>>]
       ELSE [err |-> Raise("AssertionError", 0),
             trace |-> <<"hash", "hash", "assert_false">>, hashed |-> <<other, f>>]

\* lines 184-204 of _add_file: the part below the "red exception safety line"
add_file_commit(st, di, f, size, size_path, state, packed_name, other_rerr, new_rerr) ==
    IF state = <<>>
    THEN [err |-> NoError, dirinfo |-> store_single_file(di, size_path, packed_name),
          trace |-> <<"write_dirinfo">>, hashed |-> <<>>]
    ELSE IF state[1] = STR_single
    THEN IF packed_name # state[2]
         THEN LET pr == promote_to_multi(st, f, size, state[2], packed_name,
                                         other_rerr, new_rerr)
              IN [err |-> pr.err, dirinfo |-> di, trace |-> pr.trace,
                  hashed |-> pr.hashed]
         ELSE [err |-> NoError, dirinfo |-> di, trace |-> <<>>, hashed |-> <<>>]
    ELSE [err |-> Raise("AssertionError", 0), dirinfo |-> di,
          trace |-> <<"assert_false">>, hashed |-> <<>>]

\* lines 154-204 of _add_file, after a stat that succeeded
add_file_after_stat(st, ds, di, f, new_rerr, other_rerr) ==
    LET filename == FileName(f)
        filesize == FileSize(f)
        sp == get_size_path(ds, di, filesize)
        nc == get_name_components(st, filename)
        rn == restore_name(nc.store, nc.packed)
        h == add_file_hash(f, filesize, new_rerr)
        cm == add_file_commit(nc.store, di, f, filesize, sp.path, sp.state,
                              nc.packed, other_rerr, new_rerr)
        t1 == <<"stat">>
        t2 == t1 \o sp.trace
        t3 == t2 \o nc.trace
        t4 == t3 \o <<"restore_assert">>
        t5 == t4 \o <<"hash">>
    IN IF nc.err.exc # "none"
       THEN [store |-> nc.store, dirs |-> sp.dirs, dirinfo |-> di,
             err |-> nc.err, trace |-> t3, hashed |-> <<>>]
       ELSE IF rn.err.exc # "none" \/ rn.name # filename
       THEN [store |-> nc.store, dirs |-> sp.dirs, dirinfo |-> di,
             err |-> IF rn.err.exc # "none" THEN rn.err ELSE Raise("AssertionError", 0),
             trace |-> t4, hashed |-> <<>>]
       ELSE IF h.err.exc # "none"
       THEN [store |-> nc.store, dirs |-> sp.dirs, dirinfo |-> di,
             err |-> h.err, trace |-> t5, hashed |-> <<f>>]
       ELSE [store |-> nc.store, dirs |-> sp.dirs, dirinfo |-> cm.dirinfo,
             err |-> cm.err, trace |-> t5 \o cm.trace, hashed |-> <<f>> \o cm.hashed]

\* an _add_file that makes the size directory before it stats the file
add_file_mkdir_first(st, ds, di, f, serr, new_rerr, other_rerr) ==
    IF serr # 0
    THEN [store |-> st, dirs |-> makedirs(ds, SizePath(FileSize(f))), dirinfo |-> di,
          err |-> Raise("OSError", serr), trace |-> <<"stat">>, hashed |-> <<>>]
    ELSE add_file_after_stat(st, ds, di, f, new_rerr, other_rerr)

\* _add_file(filename) in the environment (serr, new_rerr, other_rerr): the
\* errno of stat, of reading the file, of reading the file the bucket holds.
\* The result is the state the call leaves behind, also when it raises; the
\* stat of lines 147-152 raises before anything else is done
add_file(st, ds, di, f, serr, new_rerr, other_rerr) ==
    IF serr # 0
    THEN [store |-> st, dirs |-> ds, dirinfo |-> di,
          err |-> Raise("OSError", serr), trace |-> <<"stat">>, hashed |-> <<>>]
    ELSE add_file_after_stat(st, ds, di, f, new_rerr, other_rerr)

(***************************************************************************)
(* fs_tidyfy.py: FileInfo, FileY and FsDb.  A FileY is a record; the       *)
(* attributes file_info and files hold <<>> for None and <<v>> for a       *)
(* value v (a dict for state 1, a list for state 3).                       *)
(***************************************************************************)
\* FileInfo.get_hash: sha1_chunked opens the file and raises when it cannot
\* a get_hash that digests nothing of the file's content
get_hash_of_nothing(f, rerr) ==
    IF rerr # 0 THEN [err |-> Raise("IOError", rerr), digest |-> ""]
    ELSE [err |-> NoError, digest |-> "sha1_of_nothing"]

get_hash(f, rerr) ==
    IF rerr # 0 THEN [err |-> Raise("IOError", rerr), digest |-> ""]
    ELSE [err |-> NoError, digest |-> Digest(f)]

\* FileY.__init__
FileY(file_info, initial_state) ==
    [state |-> initial_state, file_info |-> <<file_info>>, files |-> <<>>]

\* state 2 with the new file put first
FileY_add_2_new_first(self, new_file_info) ==
    [self |-> [state |-> 3, file_info |-> <<>>,
               files |-> << <<new_file_info, self.file_info[1]>> >>],
     err |-> NoError, ret |-> 3,
     trace |-> <<"set_state", "set_files", "set_file_info">>, hashed |-> <<>>]

\* FileY.add, state 2: a group of one file becomes a list of two
FileY_add_2(self, new_file_info) ==
    [self |-> [state |-> 3, file_info |-> <<>>,
               files |-> << <<self.file_info[1], new_file_info>> >>],
     err |-> NoError, ret |-> 3,
     trace |-> <<"set_state", "set_files", "set_file_info">>, hashed |-> <<>>]

\* FileY.add, state 3: the new file is appended to the list
FileY_add_3(self, new_file_info) ==
    [self |-> [self EXCEPT !.files = <<Append(self.files[1], new_file_info)>>],
     err |-> NoError, ret |-> 3, trace |-> <<"list_append">>, hashed |-> <<>>]

\* FileY.add on a group object (states 2 and 3)
FileY_add_group(self, new_file_info) ==
    IF self.state = 2 THEN FileY_add_2(self, new_file_info)
    ELSE FileY_add_3(self, new_file_info)

\* state 1 that starts a fresh dict for a new digest
FileY_add_1_fresh_dict(self, new_file_info, new_rerr) ==
    LET nh == get_hash(new_file_info, new_rerr)
    IN IF nh.err.exc # "none"
       THEN [self |-> self, err |-> nh.err, ret |-> 0,
             trace |-> <<"hash">>, hashed |-> <<new_file_info>>]
       ELSE IF self.files = <<>>
       THEN [self |-> self, err |-> Raise("TypeError", 0), ret |-> 0,
             trace |-> <<"hash">>, hashed |-> <<new_file_info>>]
       ELSE IF nh.digest \notin DOMAIN self.files[1]
       THEN [self |-> [self EXCEPT !.files =
                           <<Put(EmptyDict, nh.digest, FileY(new_file_info, 2))>>],
             err |-> NoError, ret |-> 2,
             trace |-> <<"hash", "dict_insert">>, hashed |-> <<new_file_info>>]
       ELSE LET g == FileY_add_group(self.files[1][nh.digest], new_file_info)
            IN [self |-> [self EXCEPT !.files =
                              <<Put(self.files[1], nh.digest, g.self)>>],
                err |-> NoError, ret |-> 2,
                trace |-> <<"hash">> \o g.trace, hashed |-> <<new_file_info>>]

\* FileY.add, state 1: hash the new file, then a new group or the group of
\* that hash; 'in self.files' is a TypeError when files is None
FileY_add_1(self, new_file_info, new_rerr) ==
    LET nh == get_hash(new_file_info, new_rerr)
    IN IF nh.err.exc # "none"
       THEN [self |-> self, err |-> nh.err, ret |-> 0,
             trace |-> <<"hash">>, hashed |-> <<new_file_info>>]
       ELSE IF self.files = <<>>
       THEN [self |-> self, err |-> Raise("TypeError", 0), ret |-> 0,
             trace |-> <<"hash">>, hashed |-> <<new_file_info>>]
       ELSE IF nh.digest \notin DOMAIN self.files[1]
       THEN [self |-> [self EXCEPT !.files =
                           <<Put(self.files[1], nh.digest, FileY(new_file_info, 2))>>],
             err |-> NoError, ret |-> 2,
             trace |-> <<"hash", "dict_insert">>, hashed |-> <<new_file_info>>]
       ELSE LET g == FileY_add_group(self.files[1][nh.digest], new_file_info)
            IN [self |-> [self EXCEPT !.files =
                              <<Put(self.files[1], nh.digest, g.self)>>],
                err |-> NoError, ret |-> 2,
                trace |-> <<"hash">> \o g.trace, hashed |-> <<new_file_info>>]

\* state 0 that does not clear file_info
FileY_add_0_keeps_file_info(self, new_file_info, other_rerr, new_rerr) ==
    LET oh == get_hash(self.file_info[1], other_rerr)
        promoted == [state |-> 1, file_info |-> self.file_info,
                     files |-> <<Put(EmptyDict, oh.digest, FileY(self.file_info[1], 2))>>]
        again == FileY_add_1(promoted, new_file_info, new_rerr)
    IN IF oh.err.exc # "none"
       THEN [self |-> [self EXCEPT !.state = 1], err |-> oh.err, ret |-> 0,
             trace |-> <<"set_state", "hash">>, hashed |-> <<self.file_info[1]>>]
       ELSE [self |-> again.self, err |-> again.err, ret |-> again.ret,
             trace |-> <<"set_state", "hash", "set_files">> \o again.trace,
             hashed |-> <<self.file_info[1]>> \o again.hashed]

\* FileY.add, state 0: state becomes 1, the held file is hashed into a dict
\* of one group, file_info is cleared, and add runs again in state 1
FileY_add_0(self, new_file_info, other_rerr, new_rerr) ==
    LET oh == get_hash(self.file_info[1], other_rerr)
        promoted == [state |-> 1, file_info |-> <<>>,
                     files |-> <<Put(EmptyDict, oh.digest, FileY(self.file_info[1], 2))>>]
        again == FileY_add_1(promoted, new_file_info, new_rerr)
    IN IF oh.err.exc # "none"
       THEN [self |-> [self EXCEPT !.state = 1], err |-> oh.err, ret |-> 0,
             trace |-> <<"set_state", "hash">>, hashed |-> <<self.file_info[1]>>]
       ELSE [self |-> again.self, err |-> again.err, ret |-> again.ret,
             trace |-> <<"set_state", "hash", "set_files", "set_file_info">>
                           \o again.trace,
             hashed |-> <<self.file_info[1]>> \o again.hashed]

\* FileY.add on a bucket object (states 0 and 1)
FileY_add(self, new_file_info, other_rerr, new_rerr) ==
    IF self.state = 0 THEN FileY_add_0(self, new_file_info, other_rerr, new_rerr)
    ELSE FileY_add_1(self, new_file_info, new_rerr)

\* the body of the loop of FsDb.register for one file of the walk
register_file(db, f, serr, other_rerr, new_rerr) ==
    LET filesize == FileSize(f)
    IN IF serr # 0
       THEN [files |-> db, err |-> Raise("OSError", serr),
             trace |-> <<"stat">>, hashed |-> <<>>]
       ELSE IF filesize \notin DOMAIN db
       THEN [files |-> Put(db, filesize, FileY(f, 0)), err |-> NoError,
             trace |-> <<"stat", "set_bucket">>, hashed |-> <<>>]
       ELSE LET r == FileY_add(db[filesize], f, other_rerr, new_rerr)
            IN [files |-> Put(db, filesize, r.self), err |-> r.err,
                trace |-> <<"stat">> \o r.trace, hashed |-> r.hashed]

(***************************************************************************)
(* The bucket of a size as the specification describes it: Empty,          *)
(* Single(record) or Multi(digest -> group), a record being named by the   *)
(* absolute path of its file.  "Broken" is a FileY in state 1 without a    *)
(* dict; "Unknown" a dirinfo that starts with neither 'single' nor 'multi'.*)
(***************************************************************************)
Bucket(kind, single, groups) == [kind |-> kind, single |-> single, groups |-> groups]

EmptyBucket == Bucket("Empty", <<>>, EmptyDict)

\* the records of a group object of FsDb, in list order
Members(g) ==
    IF g.state = 2 THEN <<FileName(g.file_info[1])>>
    ELSE [i \in 1..Len(g.files[1]) |-> FileName(g.files[1][i])]

\* the bucket FsDb._files holds for size; single lists what file_info holds,
\* also in state 1, where the code means it to be None
DbBucket(db, size) ==
    IF size \notin DOMAIN db THEN EmptyBucket
    ELSE LET fy == db[size]
         IN IF fy.state = 0 THEN Bucket("Single", <<FileName(fy.file_info[1])>>, EmptyDict)
            ELSE IF fy.files = <<>>
            THEN Bucket("Broken", [i \in 1..Len(fy.file_info) |-> FileName(fy.file_info[i])],
                        EmptyDict)
            ELSE Bucket("Multi", [i \in 1..Len(fy.file_info) |-> FileName(fy.file_info[i])],
                        [h \in DOMAIN fy.files[1] |-> Members(fy.files[1][h])])

\* the bucket the dirinfo file of size records, read as _add_file reads it
IdxBucket(di, st, size) ==
    IF SizePath(size) \notin DOMAIN di THEN EmptyBucket
    ELSE LET state == Split(Readline(di[SizePath(size)]), " ")
         IN IF state[1] = STR_single
            THEN Bucket("Single", <<restore_name(st, state[2]).name>>, EmptyDict)
            ELSE IF state[1] = STR_multi THEN Bucket("Multi", <<>>, EmptyDict)
            ELSE Bucket("Unknown", <<>>, EmptyDict)

\* all records of a bucket, as a sequence
RECURSIVE Flatten(_, _)
Flatten(groups, keys) ==
    IF keys = {} THEN <<>>
    ELSE LET k == CHOOSE h \in keys : TRUE
         IN groups[k] \o Flatten(groups, keys \ {k})

Records(b) == b.single \o Flatten(b.groups, DOMAIN b.groups)

\* how often path p is held by bucket b
Occurrences(b, p) == Cardinality({i \in 1..Len(Records(b)) : Records(b)[i] = p})

(***************************************************************************)
(* History of a run: last describes the latest call (what it was given,    *)
(* how it ended, the steps it took, the bucket it found); seen lists the   *)
(* words handed to get_index in first-seen order; added counts the calls   *)
(* of each file that returned normally, nops all calls.                    *)
(***************************************************************************)
WriteEvents ==
    {"makedirs", "store_grow", "write_dirinfo", "set_bucket", "set_state",
     "set_files", "set_file_info", "dict_insert", "list_append"}

FallibleEvents == {"stat", "get_index", "restore_assert", "hash", "assert_false"}

\* the non-empty words before the first empty one
RECURSIVE WordsBeforeEmpty(_)
WordsBeforeEmpty(words) ==
    IF Len(words) = 0 \/ words[1] = <<>> THEN <<>>
    ELSE <<words[1]>> \o WordsBeforeEmpty(Tail(words))

RECURSIVE SeenAfter(_, _)
SeenAfter(sn, words) ==
    IF Len(words) = 0 THEN sn
    ELSE IF \E i \in 1..Len(sn) : sn[i] = words[1] THEN SeenAfter(sn, Tail(words))
    ELSE SeenAfter(Append(sn, words[1]), Tail(words))

\* packs: the packed form each path got when it was first packed
InitPacks == packs = [p \in Paths |-> <<>>]

\* ~/.fsi/name_parts.txt before the first run: it does not exist
NoNameFile == [kind |-> "missing", members |-> <<>>]

\* no indexer object exists yet; n counts the with-blocks entered so far
\* damaged: the name file was changed from outside between two runs
NoSession == [open |-> FALSE, n |-> 0, damaged |-> FALSE]

\* indexer.add has not been called; denied: the files it left out for errno 13
NoScan ==
    [status |-> "idle", visited |-> <<>>, denied |-> {}, file_count |-> 0,
     total_size |-> 0]

\* no hash function has been called
NoHashCall ==
    [op |-> "none", file |-> "none", size |-> 0, rerr |-> 0, method |-> "none",
     err |-> NoError, digest |-> <<>>]

NoCall ==
    [op |-> "none", file |-> "none", err |-> NoError, trace |-> <<>>,
     hashed |-> <<>>, pre |-> EmptyBucket]

Init ==
    /\ store = NewStore
    /\ dirs = {}
    /\ dirinfo = EmptyDict
    /\ db_files = EmptyDict
    /\ last = NoCall
    /\ seen = <<>>
    /\ added = [f \in Files |-> 0]
    /\ nops = 0
    /\ InitPacks
    /\ name_file = NoNameFile
    /\ session = NoSession
    /\ scan = NoScan
    /\ hashcall = NoHashCall

\* one call of indexer._add_file
AddFile(f, serr, new_rerr, other_rerr) ==
    /\ nops < MaxOps
    /\ \E r \in {add_file(store, dirs, dirinfo, f, serr, new_rerr, other_rerr)} :
          /\ store' = r.store
          /\ dirs' = r.dirs
          /\ dirinfo' = r.dirinfo
          /\ last' = [op |-> "_add_file", file |-> f, err |-> r.err, trace |-> r.trace,
                      hashed |-> r.hashed,
                      pre |-> IdxBucket(dirinfo, store, FileSize(f))]
          /\ added' = IF r.err.exc = "none" THEN [added EXCEPT ![f] = @ + 1] ELSE added
          /\ nops' = nops + 1
    /\ seen' = IF serr # 0 THEN seen
               ELSE SeenAfter(seen, WordsBeforeEmpty(Split(Tail(FileName(f)), "/")))
    /\ UNCHANGED <<db_files, packs, name_file, session, scan, hashcall>>

\* one file of the walk of FsDb.register
Register(f, serr, new_rerr, other_rerr) ==
    /\ nops < MaxOps
    /\ \E r \in {register_file(db_files, f, serr, other_rerr, new_rerr)} :
          /\ db_files' = r.files
          /\ last' = [op |-> "register", file |-> f, err |-> r.err, trace |-> r.trace,
                      hashed |-> r.hashed,
                      pre |-> DbBucket(db_files, FileSize(f))]
          /\ added' = IF r.err.exc = "none" THEN [added EXCEPT ![f] = @ + 1] ELSE added
          /\ nops' = nops + 1
    /\ UNCHANGED <<store, dirs, dirinfo, seen, packs, name_file, session, scan, hashcall>>

NextIndexer ==
    \E f \in Files, serr \in StatErrnos, new_rerr \in ReadErrnos, other_rerr \in ReadErrnos :
        /\ Asked(serr, new_rerr, other_rerr, SizePath(FileSize(f)) \in DOMAIN dirinfo)
        /\ AddFile(f, serr, new_rerr, other_rerr)

NextFsDb ==
    \E f \in Files, serr \in StatErrnos, new_rerr \in ReadErrnos, other_rerr \in ReadErrnos :
        /\ Asked(serr, new_rerr, other_rerr, FileSize(f) \in DOMAIN db_files)
        /\ Register(f, serr, new_rerr, other_rerr)

\* lines 156-157 of _add_file on their own: pack the path, then assert that
\* it restores
PackPath(p) ==
    /\ Cardinality({q \in Paths : packs[q] # <<>>}) < MaxPacks
    /\ \E nc \in {get_name_components(store, p)} :
          /\ nc.err.exc = "none"
          /\ store' = nc.store
          /\ packs' = [packs EXCEPT ![p] = IF @ = <<>> THEN nc.packed ELSE @]
          /\ last' = [NoCall EXCEPT !.op = "pack",
                          !.trace = nc.trace \o <<"restore_assert">>,
                          !.err = IF restore_name(nc.store, nc.packed).name = p
                                  THEN NoError ELSE Raise("AssertionError", 0)]
    /\ seen' = SeenAfter(seen, WordsBeforeEmpty(Split(Tail(p), "/")))
    /\ UNCHANGED <<dirs, dirinfo, db_files, added, nops, name_file, session, scan, hashcall>>

NextStore == \E p \in Paths : PackPath(p)

\* ~/.fsi exists once a size directory or the name file was created in it
\* the regular files and links os.walk finds under the scanned path; the
\* order in which it yields them is not fixed
ScanDir == {"x", "y", "w", "l"}

\* outcomes of stat and of reading in a scan: 13 EACCES, 2 ENOENT, 5 EIO
ScanStatErrnos == {0, 13, 2}
ScanReadErrnos == {0, 13, 5}

\* the loop goes to the next file, or ends after the last one
scan_next(sc, f) ==
    LET visited == Append(sc.visited, f)
    IN [sc EXCEPT !.visited = visited,
                  !.status = IF {visited[i] : i \in 1..Len(visited)} = ScanDir
                             THEN "done" ELSE "running"]

\* an except clause that continues on every IOError
scan_after_skip_all(sc, f, err) ==
    IF err.exc = "none"
    THEN [scan_next(sc, f) EXCEPT !.file_count = @ + 1, !.total_size = @ + FileSize(f)]
    ELSE IF err.exc = "OSError"
    THEN [scan_next(sc, f) EXCEPT !.denied = @ \cup {f}]
    ELSE [sc EXCEPT !.visited = Append(@, f), !.status = "aborted"]

\* lines 239-248 of add: the try around _add_file. IOError (OSError in
\* Python 3) with errno 13 continues with the next file, uncounted; every
\* other exception is raised again and ends add
scan_after(sc, f, err) ==
    IF err.exc = "none"
    THEN [scan_next(sc, f) EXCEPT !.file_count = @ + 1, !.total_size = @ + FileSize(f)]
    ELSE IF err.exc = "OSError" /\ err.errno = 13
    THEN [scan_next(sc, f) EXCEPT !.denied = @ \cup {f}]
    ELSE [sc EXCEPT !.visited = Append(@, f), !.status = "aborted"]

\* indexer.add is called: lines 220-223
StartScan ==
    /\ scan.status = "idle"
    /\ scan' = [scan EXCEPT !.status = "running"]
    /\ UNCHANGED <<store, dirs, dirinfo, db_files, last, seen, added, nops, packs,
                   name_file, session, hashcall>>

\* one file name of the walk that is a link (line 234): skipped
ScanLink(f) ==
    /\ scan.status = "running"
    /\ \A i \in 1..Len(scan.visited) : scan.visited[i] # f
    /\ scan' = scan_next(scan, f)
    /\ last' = [NoCall EXCEPT !.op = "skip link", !.file = f]
    /\ UNCHANGED <<store, dirs, dirinfo, db_files, seen, added, nops, packs,
                   name_file, session, hashcall>>

\* one regular file of the walk: _add_file inside the try of lines 239-247
ScanFile(f, serr, new_rerr, other_rerr) ==
    /\ scan.status = "running"
    /\ \A i \in 1..Len(scan.visited) : scan.visited[i] # f
    /\ \E r \in {add_file(store, dirs, dirinfo, f, serr, new_rerr, other_rerr)} :
          /\ store' = r.store
          /\ dirs' = r.dirs
          /\ dirinfo' = r.dirinfo
          /\ last' = [op |-> "_add_file", file |-> f, err |-> r.err, trace |-> r.trace,
                      hashed |-> r.hashed,
                      pre |-> IdxBucket(dirinfo, store, FileSize(f))]
          /\ added' = IF r.err.exc = "none" THEN [added EXCEPT ![f] = @ + 1] ELSE added
          /\ scan' = scan_after(scan, f, r.err)
    /\ seen' = IF serr # 0 THEN seen
               ELSE SeenAfter(seen, WordsBeforeEmpty(Split(Tail(FileName(f)), "/")))
    /\ UNCHANGED <<db_files, nops, packs, name_file, session, hashcall>>

NextScan ==
    \/ StartScan
    \/ \E f \in ScanDir : ScanLink(f)
    \/ \E f \in ScanDir, serr \in ScanStatErrnos, new_rerr \in ScanReadErrnos,
          other_rerr \in ScanReadErrnos :
          /\ Asked(serr, new_rerr, other_rerr, SizePath(FileSize(f)) \in DOMAIN dirinfo)
          /\ ScanFile(f, serr, new_rerr, other_rerr)

\* sizes and read outcomes handed to the hash functions: below, between and
\* above the two limits; errno 13 (EACCES) and 5 (EIO)
HashSizes == {5, 49999, 50000, 55000, 59999, 60000, 70000}
HashErrnos == {0, 13, 5}

\* fast_sha1(filename, size) called on its own
FastSha1(f, size, rerr) ==
    /\ \E h \in {fast_sha1(f, size, rerr)} :
          hashcall' = [op |-> "fast_sha1", file |-> f, size |-> size, rerr |-> rerr,
                       method |-> fast_sha1_method(size),
                       err |-> h.err, digest |-> h.digest]
    /\ UNCHANGED <<store, dirs, dirinfo, db_files, last, seen, added, nops, packs,
                   name_file, session, scan>>

\* the hash step of _add_file (lines 161-178) on its own
AddFileHash(f, size, rerr) ==
    /\ \E h \in {add_file_hash(f, size, rerr)} :
          hashcall' = [op |-> "_add_file", file |-> f, size |-> size, rerr |-> rerr,
                       method |-> add_file_hash_method(size),
                       err |-> h.err, digest |-> h.digest]
    /\ UNCHANGED <<store, dirs, dirinfo, db_files, last, seen, added, nops, packs,
                   name_file, session, scan>>

NextHash ==
    \E f \in Files, size \in HashSizes, rerr \in HashErrnos :
        \/ FastSha1(f, size, rerr)
        \/ AddFileHash(f, size, rerr)

FsiExists == dirs # {} \/ name_file.kind # "missing"

\* a new process: indexer() and __enter__, which loads the name file into the
\* fresh store; when load raises, the with-block is never entered
Enter ==
    /\ ~session.open
    /\ session.n < MaxSessions
    /\ \E l \in {load(NewStore, name_file)} :
          /\ store' = l.store
          /\ session' = [session EXCEPT !.open = (l.err.exc = "none"), !.n = @ + 1]
          /\ last' = [NoCall EXCEPT !.op = "__enter__", !.err = l.err]
    /\ UNCHANGED <<dirs, dirinfo, db_files, seen, added, nops, packs, name_file,
                   scan, hashcall>>

\* __exit__: save, load what was saved into a fresh store and assert that it
\* equals the store; open(filename, 'w') fails when ~/.fsi does not exist
Exit ==
    /\ session.open
    /\ IF ~FsiExists
       THEN /\ last' = [NoCall EXCEPT !.op = "__exit__", !.err = Raise("OSError", 2)]
            /\ UNCHANGED name_file
       ELSE \E saved \in {save(store)} :
              \E test \in {load(NewStore, saved)} :
                 /\ name_file' = saved
                 /\ last' = [NoCall EXCEPT !.op = "__exit__",
                                 !.err = IF test.err.exc # "none" THEN test.err
                                         ELSE IF store_eq(test.store, store) THEN NoError
                                         ELSE Raise("AssertionError", 0)]
    /\ session' = [session EXCEPT !.open = FALSE]
    /\ UNCHANGED <<store, dirs, dirinfo, db_files, seen, added, nops, packs, scan, hashcall>>

\* files added inside a with-block; their sizes differ
SessionFiles == {"x", "w", "p", "r"}

\* _add_file on an open indexer, the file system answering without error
SessionAdd(f) ==
    /\ session.open
    /\ AddFile(f, 0, 0, 0)

\* what can be found in place of a name file written by an earlier run:
\* truncated text, JSON that is no object, an object that lost its first
\* member, an object whose last id was overwritten with 0
Damages == {"garbage", "array", "gap", "dup"}

Damaged(file, how) ==
    IF how \in {"garbage", "array"} THEN [kind |-> how, members |-> <<>>]
    ELSE IF how = "gap" THEN [file EXCEPT !.members = Tail(@)]
    ELSE [file EXCEPT !.members[Len(file.members)] = <<@[1], Str(0)>>]

\* the name file is changed from outside while no process runs
Damage(how) ==
    /\ ~session.open
    /\ ~session.damaged
    /\ name_file.kind = "object"
    /\ Len(name_file.members) >= 2
    /\ name_file' = Damaged(name_file, how)
    /\ session' = [session EXCEPT !.damaged = TRUE]
    /\ UNCHANGED <<store, dirs, dirinfo, db_files, last, seen, added, nops, packs,
                   scan, hashcall>>

NextSession ==
    \/ Enter
    \/ Exit
    \/ \E f \in SessionFiles : SessionAdd(f)

NextDamaged ==
    \/ NextSession
    \/ \E how \in Damages : Damage(how)

\* a run of fsi.py
SpecIndexer == Init /\ [][NextIndexer]_vars

\* a run of fs_tidyfy.py
SpecFsDb == Init /\ [][NextFsDb]_vars

\* the name store of fsi.py packing paths
SpecStore == Init /\ [][NextStore]_vars

\* one call of indexer.add over a directory
SpecScan == Init /\ [][NextScan]_vars

\* the hash functions of fsi.py called with any size and read outcome
SpecHash == Init /\ [][NextHash]_vars

\* runs of fsi.py one after another over the same ~/.fsi
SpecSession == Init /\ [][NextSession]_vars

\* the same, the name file being damaged once between two runs
SpecDamaged == Init /\ [][NextDamaged]_vars

\* the bucket of size in the index the latest call worked on
BucketNow(size) ==
    IF last.op = "register" THEN DbBucket(db_files, size)
    ELSE IdxBucket(dirinfo, store, size)

(***************************************************************************)
(* Vocabulary of the claims.                                               *)
(***************************************************************************)
Called == last.op # "none"

LastSize == FileSize(last.file)
LastPath == FileName(last.file)
Pre == last.pre
Post == BucketNow(LastSize)

\* the file on disk that has the absolute path p
FileOf(p) == CHOOSE f \in Files : FileName(f) = p

\* the call ended in an error of the environment (stat or read refused)
EnvFailed == last.err.exc \in {"OSError", "IOError"}
StatFailed == EnvFailed /\ last.trace = <<"stat">>
Completed == last.err.exc = "none"

\* every segment of the path of f is non-empty
ValidPath(f) == \A w \in {Split(Tail(FileName(f)), "/")[i] :
                              i \in 1..Len(Split(Tail(FileName(f)), "/"))} : w # <<>>

InSeq(sq, v) == \E i \in 1..Len(sq) : sq[i] = v

----------------------------------------------------------------------------
\* C1: a call that finds Single(r) and is given a readable file of the same
\* size and another path completes; the bucket is then Multi, both files
\* were hashed, and the groups are {d -> <<r, new>>} when the digests are
\* equal, {d_r -> <<r>>, d_new -> <<new>>} when they differ.
C1_PromotionCompletes ==
    (Called /\ Pre.kind = "Single" /\ Pre.single[1] # LastPath
        /\ ValidPath(last.file) /\ ~EnvFailed)
    => LET r == Pre.single[1]
           dr == Digest(FileOf(r))
           dn == Digest(last.file)
       IN /\ Completed
          /\ Post.kind = "Multi"
          /\ Post.single = <<>>
          /\ InSeq(last.hashed, FileOf(r)) /\ InSeq(last.hashed, last.file)
          /\ IF dr = dn
             THEN DOMAIN Post.groups = {dr} /\ Post.groups[dr] = <<r, LastPath>>
             ELSE /\ DOMAIN Post.groups = {dr, dn}
                  /\ Post.groups[dr] = <<r>>
                  /\ Post.groups[dn] = <<LastPath>>

\* C2: a call that finds the bucket Empty and whose stat succeeds leaves it
\* Single(new) and calls no hash function; whenever a call hashes a file,
\* the bucket it found already held a record of another path.
C2_FirstAddNoHash ==
    /\ (Called /\ Pre.kind = "Empty" /\ ValidPath(last.file) /\ ~StatFailed)
           => /\ Completed
              /\ Post = Bucket("Single", <<LastPath>>, EmptyDict)
              /\ last.hashed = <<>>
    /\ (Called /\ last.hashed # <<>>)
           => \E i \in 1..Len(Records(Pre)) : Records(Pre)[i] # LastPath

\* C3: in the steps of one call no fallible step (stat, get_index, the
\* restore assertion, a hash) comes after a writing step (makedirs, growth
\* of the name store, the dirinfo write, an assignment to a bucket field),
\* and no bucket is left in state 1 without its dict.
C3_FallibleBeforeWrites ==
    /\ \A i, j \in 1..Len(last.trace) :
           (i < j /\ last.trace[i] \in WriteEvents) => last.trace[j] \notin FallibleEvents
    /\ \A s \in Sizes : DbBucket(db_files, s).kind # "Broken"

\* C4: a call that raises leaves the bucket of its file's size as it found
\* it.
C4_FailedAddChangesNothing ==
    (Called /\ ~Completed) => Post = Pre

\* C5: a call that finds Single(r) and is given the path of r leaves the
\* bucket Single(r), so the number of records held does not change.
C5_SamePathIsNoOp ==
    (Called /\ Pre.kind = "Single" /\ Pre.single[1] = LastPath)
    => /\ Post = Pre
       /\ Len(Records(Post)) = 1

\* C6: a call that finds Multi(groups) and is given a readable file whose
\* digest d is a key of groups completes; groups[d] has the new record
\* appended at its end and every other group is as it was.
C6_MatchingHashAppends ==
    (Called /\ Pre.kind = "Multi" /\ ~EnvFailed /\ Digest(last.file) \in DOMAIN Pre.groups)
    => LET d == Digest(last.file)
       IN /\ Completed
          /\ Post.kind = "Multi"
          /\ DOMAIN Post.groups = DOMAIN Pre.groups
          /\ Post.groups[d] = Append(Pre.groups[d], LastPath)
          /\ \A h \in DOMAIN Pre.groups \ {d} : Post.groups[h] = Pre.groups[h]

\* x and z were registered, then y (same content as x) joined the group of x
C6_Witness ==
    /\ Called /\ Completed /\ Pre.kind = "Multi"
    /\ Cardinality(DOMAIN Pre.groups) = 2
    /\ Digest(last.file) \in DOMAIN Pre.groups
    /\ Len(Post.groups[Digest(last.file)]) = 2

\* C7: a call that finds Multi(groups) and is given a readable file whose
\* digest d is no key of groups completes; the bucket gains the one group
\* d -> <<new>> and every group it had is as it was.
C7_NewHashNewGroup ==
    (Called /\ Pre.kind = "Multi" /\ ~EnvFailed /\ Digest(last.file) \notin DOMAIN Pre.groups)
    => LET d == Digest(last.file)
       IN /\ Completed
          /\ Post.kind = "Multi"
          /\ DOMAIN Post.groups = DOMAIN Pre.groups \cup {d}
          /\ Post.groups[d] = <<LastPath>>
          /\ \A h \in DOMAIN Pre.groups : Post.groups[h] = Pre.groups[h]

\* scenarios A, B, C: after x, y, z the bucket of 500 has the groups
\* <</a/x, /a/y>> and <</a/z>>
C7_Witness ==
    /\ Called /\ Completed /\ last.file = "z"
    /\ Pre = Bucket("Multi", <<>>, Put(EmptyDict, Digest("x"), <<FileName("x"), FileName("y")>>))
    /\ Post = Bucket("Multi", <<>>,
                     Put(Put(EmptyDict, Digest("x"), <<FileName("x"), FileName("y")>>),
                         Digest("z"), <<FileName("z")>>))

RECURSIVE SumAdded(_)
SumAdded(fs) ==
    IF fs = {} THEN 0
    ELSE LET f == CHOOSE g \in fs : TRUE IN added[f] + SumAdded(fs \ {f})

\* every call so far returned normally, and no path was given twice
OnlySuccessfulDistinctAdds ==
    /\ nops = SumAdded(Files)
    /\ \A f \in Files : added[f] <= 1

\* C8: after calls that all returned normally on pairwise distinct paths,
\* the record of each added file is held exactly once by the bucket of its
\* size and by no other bucket, and no other record is held.
C8_EachRecordOnce ==
    (Called /\ OnlySuccessfulDistinctAdds)
    => \A f \in Files : \A s \in Sizes :
           Occurrences(BucketNow(s), FileName(f)) =
               (IF s = FileSize(f) /\ added[f] = 1 THEN 1 ELSE 0)

\* three distinct files of one size were added: a promotion and a growth
C8_Witness ==
    /\ nops = 3 /\ OnlySuccessfulDistinctAdds
    /\ added["x"] = 1 /\ added["y"] = 1 /\ added["z"] = 1
    /\ DbBucket(db_files, 500).kind = "Multi"

\* the sizes whose buckets are watched: those of the files and some without
ProbeSizes == Sizes \cup {0, 55, 50000}

\* C9: a call on a file of size s leaves the bucket of every other size as
\* it was (the bucket of 5, 50 and 5000 when s is 500; an Empty one Empty).
C9_OtherBucketsUnchanged ==
    [][\A s \in ProbeSizes \ {FileSize(last'.file)} :
           /\ IdxBucket(dirinfo', store', s) = IdxBucket(dirinfo, store, s)
           /\ DbBucket(db_files', s) = DbBucket(db_files, s)]_vars

\* a file of 500 bytes was added while the buckets of 5 and 5000 were Single
C9_Witness ==
    /\ last.op = "_add_file" /\ Completed /\ last.file = "x"
    /\ IdxBucket(dirinfo, store, 500).kind = "Single"
    /\ IdxBucket(dirinfo, store, 5).kind = "Single"
    /\ IdxBucket(dirinfo, store, 5000).kind = "Single"
    /\ IdxBucket(dirinfo, store, 50).kind = "Empty"

\* C10: the store maps the words seen, in first-seen order, one-to-one onto
\* 0..size-1: word number i+1 has id i, both dicts are inverse to each
\* other, and size is the number of distinct words seen.
C10_StoreIsBijection ==
    /\ store.size = Len(seen)
    /\ DOMAIN store.idx_to_word = 0..(Len(seen) - 1)
    /\ \A i \in 1..Len(seen) : store.idx_to_word[i - 1] = seen[i]
    /\ DOMAIN store.word_to_idx = {seen[i] : i \in 1..Len(seen)}
    /\ \A w \in DOMAIN store.word_to_idx :
           /\ store.word_to_idx[w] \in DOMAIN store.idx_to_word
           /\ store.idx_to_word[store.word_to_idx[w]] = w
    /\ \A i, j \in DOMAIN store.idx_to_word :
           i # j => store.idx_to_word[i] # store.idx_to_word[j]

\* the latest call interned a new word and asked again for a known one
C10_Witness ==
    /\ last.op = "_add_file" /\ Completed
    /\ store.size >= 3
    /\ InSeq(last.trace, "store_grow")
    /\ Cardinality({i \in 1..Len(last.trace) : last.trace[i] = "get_index"})
           > Cardinality({i \in 1..Len(last.trace) : last.trace[i] = "store_grow"})

(***************************************************************************)
(* C11: for every absolute path whose segments are all non-empty, and      *)
(* whatever the store held before, the packed form the path got when it    *)
(* was packed restores to exactly that path on the same store, also after  *)
(* further paths have been packed in between.                              *)
(***************************************************************************)
C11_PackRoundTrip ==
    \A p \in Paths :
        packs[p] # <<>> => restore_name(store, packs[p]) = [err |-> NoError, name |-> p]

\* a path packed first still restores after others were packed, and the store
\* has given out a two-digit id
C11_Witness ==
    /\ store.size > 10
    /\ \E p \in Paths :
          /\ packs[p] # <<>>
          /\ ParseInt(Split(packs[p], "/")[1]) = 0
          /\ restore_name(store, packs[p]).name = p
    /\ \E q \in Paths : packs[q] # <<>> /\ InSeq(Split(packs[q], "/"), Str(10))

(***************************************************************************)
(* C12: saving a populated name store and loading what was saved into a    *)
(* fresh store gives a store equal to the saved one (size and both         *)
(* mappings); the self-check of __exit__ that asserts this never fails.    *)
(***************************************************************************)
C12_SaveLoadEqual ==
    (last.op = "__exit__" /\ last.err.exc # "OSError") =>
        /\ last.err = NoError
        /\ name_file = save(store)
        /\ load(NewStore, name_file) = [err |-> NoError, store |-> store]

\* the second run, whose store was loaded and then grew, has saved it
C12_Witness ==
    /\ last.op = "__exit__"
    /\ last.err = NoError
    /\ session.n = 2
    /\ store.size >= 3
    /\ Len(name_file.members) = store.size

(***************************************************************************)
(* C13: loading the name store from a file whose content is malformed      *)
(* (not a mapping, or a mapping that is not a bijection onto 0..n-1) fails *)
(* with an error; it never yields an empty or partly loaded store that the *)
(* index goes on to use.                                                   *)
(***************************************************************************)
Malformed(file) ==
    \/ file.kind \in {"garbage", "array"}
    \/ /\ file.kind = "object"
       /\ LET n == Len(file.members)
          IN \/ {ParseInt(file.members[i][2]) : i \in 1..n} # 0..(n - 1)
             \/ \E i, j \in 1..n : i # j /\ file.members[i][1] = file.members[j][1]

C13_MalformedLoadFails ==
    (last.op = "__enter__" /\ Malformed(name_file)) =>
        (last.err.exc # "none" /\ ~session.open)

(***************************************************************************)
(* C14: if a file cannot be opened or read, hashing it fails with an error *)
(* on both hashing paths (in-process and external utility); no digest,     *)
(* empty or garbage, is returned for a file that could not be read.        *)
(***************************************************************************)
C14_UnreadableHashFails ==
    (hashcall.op # "none" /\ hashcall.rerr # 0) => hashcall.err.exc # "none"

(***************************************************************************)
(* C20: there is one size threshold: for every file size the hash step of  *)
(* _add_file and fast_sha1 (used by promotion) select the same hashing     *)
(* method, so whichever of the two was called, the other would have called *)
(* the same function for that size.                                        *)
(***************************************************************************)
C20_OneThreshold ==
    hashcall.op # "none" =>
        /\ hashcall.method = fast_sha1_method(hashcall.size)
        /\ hashcall.method = add_file_hash_method(hashcall.size)

C16_StatFailureChangesNothing ==
    [][(last'.op = "_add_file" /\ last'.trace = <<"stat">>) =>
          /\ last'.err.exc = "OSError"
          /\ store' = store
          /\ dirs' = dirs
          /\ dirinfo' = dirinfo
          /\ added' = added]_vars

\* stat failed on a file whose words and size directory the index, already
\* holding another file, did not have yet, and still does not have
C16_Witness ==
    /\ last.op = "_add_file"
    /\ last.trace = <<"stat">>
    /\ last.err.exc = "OSError"
    /\ store.size > 0
    /\ SizePath(LastSize) \notin dirs
    /\ \E i \in 1..Len(Split(Tail(LastPath), "/")) :
          Split(Tail(LastPath), "/")[i] \notin DOMAIN store.word_to_idx

(***************************************************************************)
(* C17: every duplicate group of a Multi bucket is non-empty, every member *)
(* has the bucket's file size and a content hash equal to the group's key, *)
(* and no two groups of the bucket stand for the same hash.                *)
(***************************************************************************)
C17_GroupsWellFormed ==
    \A size \in Sizes :
        LET b == DbBucket(db_files, size)
        IN b.kind = "Multi" =>
              /\ \A h \in DOMAIN b.groups :
                    /\ Len(b.groups[h]) >= 1
                    /\ \A i \in 1..Len(b.groups[h]) :
                          /\ FileSize(FileOf(b.groups[h][i])) = size
                          /\ Digest(FileOf(b.groups[h][i])) = h
              /\ \A h1, h2 \in DOMAIN b.groups :
                    (\E i \in 1..Len(b.groups[h1]), j \in 1..Len(b.groups[h2]) :
                        Digest(FileOf(b.groups[h1][i])) = Digest(FileOf(b.groups[h2][j])))
                    => h1 = h2

\* a Multi bucket of two groups, one of them holding two files
C17_Witness ==
    \E size \in Sizes :
        LET b == DbBucket(db_files, size)
        IN /\ b.kind = "Multi"
           /\ Cardinality(DOMAIN b.groups) = 2
           /\ \E h \in DOMAIN b.groups : Len(b.groups[h]) = 2

(***************************************************************************)
(* C18: bucket states only move forward: under any sequence of adds,       *)
(* successful or failed, a Multi bucket never becomes Single or Empty, a   *)
(* Single bucket never becomes Empty, and the number of records a bucket   *)
(* holds never decreases.                                                  *)
(***************************************************************************)
C18_BucketsMoveForward ==
    [][\A size \in Sizes :
          LET b == DbBucket(db_files, size)
              b2 == DbBucket(db_files', size)
          IN /\ b.kind = "Multi" => b2.kind \notin {"Single", "Empty"}
             /\ b.kind = "Single" => b2.kind # "Empty"
             /\ Len(Records(b2)) >= Len(Records(b))]_vars

\* a failed add has left a Multi bucket of two records as it was
C18_Witness ==
    /\ last.op = "register"
    /\ last.err.exc # "none"
    /\ Pre.kind = "Multi"
    /\ Len(Records(Pre)) = 2
    /\ Post = Pre

(***************************************************************************)
(* C19: ids are stable across sessions: in a run that loaded the store an  *)
(* earlier run saved, get_index of every component interned before returns *)
(* the id it had before (seen lists the components in the order they were  *)
(* first interned, in whichever run), the first component not seen before  *)
(* gets an id that was never assigned, and every packed path already       *)
(* written to a dirinfo file still restores to the path that was added.    *)
(***************************************************************************)
UnseenWord == <<"n", "e", "w">>

C19_IdsStableAcrossSessions ==
    session.open =>
        /\ \A i \in 1..Len(seen) :
              /\ get_index(store, seen[i]).index = i - 1
              /\ ~get_index(store, seen[i]).grew
        /\ get_index(store, UnseenWord).grew
        /\ get_index(store, UnseenWord).index \notin 0..(Len(seen) - 1)
        /\ \A f \in SessionFiles :
              added[f] > 0 =>
                  IdxBucket(dirinfo, store, FileSize(f))
                      = Bucket("Single", <<FileName(f)>>, EmptyDict)

\* the second run loaded what the first saved, and has interned a new word
C19_Witness ==
    /\ session.open
    /\ session.n = 2
    /\ name_file.kind = "object"
    /\ Len(name_file.members) >= 2
    /\ store.size > Len(name_file.members)
    /\ last.op = "_add_file"
    /\ Completed
    /\ \E f \in SessionFiles \ {last.file} : added[f] > 0
====
